---- MODULE Spec2Model ----
(***************************************************************************)
(* Verification model of the RAD-Lectures teaching repository.             *)
(*                                                                         *)
(* Several independent example programs are modelled, each with its own    *)
(* specification over the shared variable list:                            *)
(*   SpecCounter     - the two Redux Toolkit counter stores (Day-04)       *)
(*   SpecAuth        - the Day-07 smart-blog auth controller               *)
(*   SpecTestRoute   - the Day-06 GET /test route stack with the reusable  *)
(*                     middleware                                          *)
(*   SpecCounterSync - App and CountView displaying the Day-04 store       *)
(*   SpecLockstep    - createReducer, createSlice and useReducer counters  *)
(*                     driven by the same operations                       *)
(*   SpecServer      - the whole Day-06 middleware pipeline                *)
(*   SpecRouter      - the Day-03 routers, Part 01 and Part 02             *)
(*   SpecBlogFe      - the Day-07 frontend router and axios interceptor    *)
(*   SpecLazy        - the Day-04 lazy-loading router under one Suspense   *)
(***************************************************************************)
EXTENDS Integers, Sequences, FiniteSets, TLC

VARIABLES
    classicCounter,   \* Day-04-Redux-Classic: state.counter = { initCount }
    sliceCounter,     \* Day-04-Redux-Slice:   state.counter = { count }
    lastClassic,      \* last action the classic store reduced, and the state before it
    lastSlice,        \* last action the slice store reduced, and the state before it
    users,            \* Day-07: the persisted User collection (documents in insertion order)
    accessToken,      \* Day-07: payload of the access token the client holds (NoToken if none)
    lastReq,          \* Day-07: the request most recently handled
    lastRes,          \* Day-07: the response that request received
    served,           \* Day-06: log of the requests the /test route stack has processed
    rendered,         \* Day-04-Redux-Classic: the count each component currently displays
    pendingRender,    \* Day-04-Redux-Classic: components notified by the store, not yet re-rendered
    hookCounter,      \* Day-04 React-Counter: the useReducer state { count }
    dispatched,       \* Day-04: the actions dispatched to all three counters, in order
    handled,          \* Day-06: log of the requests the whole app pipeline has processed
    visited,          \* Day-03: the URLs visited, each with what either router renders for it
    storedToken,      \* Day-07 frontend: localStorage "accessToken" ("null" when absent)
    contextUser,      \* Day-07 frontend: the user held by the auth context ("null" when none)
    blogScreen,       \* Day-07 frontend: the location and what the router renders for it
    lastConfig,       \* Day-07 frontend: the last request config the interceptor returned
    lazyLoaded,       \* Day-04 lazy loading: the page modules whose import() has resolved
    lazyLocation,     \* Day-04 lazy loading: the pathname the router is at
    lazyScreen        \* Day-04 lazy loading: what the browser displays

vars == <<classicCounter, sliceCounter, lastClassic, lastSlice,
          users, accessToken, lastReq, lastRes, served,
          rendered, pendingRender, hookCounter, dispatched,
          handled, visited,
          storedToken, contextUser, blogScreen, lastConfig,
          lazyLoaded, lazyLocation, lazyScreen>>

counterVars == <<classicCounter, sliceCounter, lastClassic, lastSlice>>
authVars    == <<users, accessToken, lastReq, lastRes>>
routeVars   == <<served>>
syncVars    == <<rendered, pendingRender>>
lockVars    == <<hookCounter, dispatched>>
appVars     == <<handled>>
navVars     == <<visited>>
feVars      == <<storedToken, contextUser, blogScreen, lastConfig>>
lazyVars    == <<lazyLoaded, lazyLocation, lazyScreen>>
extVars     == <<syncVars, lockVars, appVars, navVars, feVars, lazyVars>>

(***************************************************************************)
(* Day-04: Redux counter stores                                            *)
(***************************************************************************)

\* Largest absolute counter value explored.
MaxCount == 3

\* Payloads offered to valueSetting.
Payloads == (0 - MaxCount) .. MaxCount

\* counterAction.ts: the three action creators made by createAction.
incrementing == [type |-> "myCounter/myIncrement"]
decrementing == [type |-> "myCounter/myDecrement"]
valueSetting(p) == [type |-> "myCounter/mySetValue", payload |-> p]

\* counterSlice.actions: creators generated by createSlice under the name "counter".
sliceIncrementing == [type |-> "counter/incrementing"]
sliceDecrementing == [type |-> "counter/decrementing"]
sliceValueSetting(p) == [type |-> "counter/valueSetting", payload |-> p]

\* The action Redux dispatches when a store is created.
ReduxInit == [type |-> "@@redux/INIT"]

\* initialState of the createReducer store.
classicInitialState == [initCount |-> 0]

\* initialState of the createSlice store.
sliceInitialState == [count |-> 0]

\* Mutant of counterReducer: the increment case written "=+ 1" (assigns 1).
counterReducerAssignsOne(currentState, counterAction) ==
    CASE counterAction.type = incrementing.type ->
            [currentState EXCEPT !.initCount = 1]
      [] counterAction.type = decrementing.type ->
            [currentState EXCEPT !.initCount = @ - 1]
      [] counterAction.type = "myCounter/mySetValue" ->
            [currentState EXCEPT !.initCount = counterAction.payload]
      [] OTHER -> currentState

\* createReducer(initialState, builder): one case per action creator; an
\* action no case matches leaves the state as it is.
counterReducer(currentState, counterAction) ==
    CASE counterAction.type = incrementing.type ->
            [currentState EXCEPT !.initCount = @ + 1]
      [] counterAction.type = decrementing.type ->
            [currentState EXCEPT !.initCount = @ - 1]
      [] counterAction.type = "myCounter/mySetValue" ->
            [currentState EXCEPT !.initCount = counterAction.payload]
      [] OTHER -> currentState

\* Mutant of sliceReducer: valueSetting written "+= payload" instead of "=".
sliceReducerAddsPayload(currentState, currentAction) ==
    CASE currentAction.type = sliceIncrementing.type ->
            [currentState EXCEPT !.count = @ + 1]
      [] currentAction.type = sliceDecrementing.type ->
            [currentState EXCEPT !.count = @ - 1]
      [] currentAction.type = "counter/valueSetting" ->
            [currentState EXCEPT !.count = @ + currentAction.payload]
      [] OTHER -> currentState

\* counterSlice.reducer: the reducers object of createSlice.
sliceReducer(currentState, currentAction) ==
    CASE currentAction.type = sliceIncrementing.type ->
            [currentState EXCEPT !.count = @ + 1]
      [] currentAction.type = sliceDecrementing.type ->
            [currentState EXCEPT !.count = @ - 1]
      [] currentAction.type = "counter/valueSetting" ->
            [currentState EXCEPT !.count = currentAction.payload]
      [] OTHER -> currentState

InRange(n) == (0 - MaxCount) <= n /\ n <= MaxCount

\* store.dispatch(action) on the createReducer store.
ClassicDispatch(a, via) ==
    /\ InRange(counterReducer(classicCounter, a).initCount)
    /\ classicCounter' = counterReducer(classicCounter, a)
    /\ lastClassic' = [action |-> a, before |-> classicCounter, via |-> via]
    /\ UNCHANGED <<sliceCounter, lastSlice>>
    /\ UNCHANGED <<authVars, routeVars, extVars>>

\* store.dispatch(action) on the createSlice store.
SliceDispatch(a, via) ==
    /\ InRange(sliceReducer(sliceCounter, a).count)
    /\ sliceCounter' = sliceReducer(sliceCounter, a)
    /\ lastSlice' = [action |-> a, before |-> sliceCounter, via |-> via]
    /\ UNCHANGED <<classicCounter, lastClassic>>
    /\ UNCHANGED <<authVars, routeVars, extVars>>

\* Day-04-Redux-Classic App: the three button handlers.
ClassicHandleIncrement == ClassicDispatch(incrementing, "handleIncrement")
ClassicHandleDecrement == ClassicDispatch(decrementing, "handleDecrement")
ClassicHandleReset     == ClassicDispatch(valueSetting(0), "handleReset")

\* Day-04-Redux-Slice App: the three button handlers.
SliceHandleIncrement == SliceDispatch(sliceIncrementing, "handleIncrement")
SliceHandleDecrement == SliceDispatch(sliceDecrementing, "handleDecrement")
SliceHandleReset     == SliceDispatch(sliceValueSetting(0), "handleReset")

\* A direct dispatch of valueSetting(p) with any payload.
ClassicSetValue == \E p \in Payloads : ClassicDispatch(valueSetting(p), "dispatch")
SliceSetValue   == \E p \in Payloads : SliceDispatch(sliceValueSetting(p), "dispatch")

\* An action of the other store's vocabulary reaches the reducer and matches no case.
ClassicForeignAction == ClassicDispatch(sliceIncrementing, "dispatch")
SliceForeignAction   == SliceDispatch(incrementing, "dispatch")

CounterInit ==
    /\ classicCounter = counterReducer(classicInitialState, ReduxInit)
    /\ sliceCounter = sliceReducer(sliceInitialState, ReduxInit)
    /\ lastClassic = [action |-> ReduxInit, before |-> classicInitialState, via |-> "createStore"]
    /\ lastSlice = [action |-> ReduxInit, before |-> sliceInitialState, via |-> "createStore"]

CounterNext ==
    \/ ClassicHandleIncrement
    \/ ClassicHandleDecrement
    \/ ClassicHandleReset
    \/ ClassicSetValue
    \/ ClassicForeignAction
    \/ SliceHandleIncrement
    \/ SliceHandleDecrement
    \/ SliceHandleReset
    \/ SliceSetValue
    \/ SliceForeignAction

(***************************************************************************)
(* Day-07: smart-blog backend, auth controller                             *)
(***************************************************************************)

\* enum Role and enum Status of models/userModels.
Role == [ADMIN |-> "ADMIN", AUTHOR |-> "AUTHOR", USER |-> "USER"]
Status == [APPROVED |-> "APPROVED", PENDING |-> "PENDING", REJECTED |-> "REJECTED"]

\* Request inputs explored.  The empty string is JavaScript's falsy string:
\* it stands for a field the client left empty.
Emails     == {"jane@example.com", "sam@example.com"}
Passwords  == {"securePassword123", "hunter2"}
RoleInputs == {"", Role.USER, Role.AUTHOR, Role.ADMIN, "EDITOR"}

\* The password submitted to POST /auth/admin/register.
AdminPassword == "s3cret-admin"

\* The default admin account created at start-up from the .env values.
DefaultAdminEmail    == "admin@gmail.com"
DefaultAdminPassword == "admin123"

\* Salts bcrypt.genSalt may draw.
Salts == {"saltA"}

\* The cost factor passed to bcrypt.hash.
SaltRounds == 10

\* bcrypt.hash(s, rounds): a "$2a$<rounds>$<salt><digest>" string.  The digest
\* is one-way; it is written as the symbolic term H(s).
bcryptHash(s, rounds, salt) ==
    "$2a$" \o ToString(rounds) \o "$" \o salt \o "$H(" \o s \o ")"

\* bcrypt.compare(s, hash): re-hashes s with the cost and salt read from hash.
bcryptCompare(s, hash) ==
    \E salt \in Salts, rounds \in {SaltRounds} : hash = bcryptHash(s, rounds, salt)

\* JavaScript's !v on a string.
Falsy(v) == v = ""

\* The Mongoose call that rejects while a request is handled, if any.
Faults == {"none", "findOne", "findById", "save"}

\* What becomes of a promise rejection no handler catches: Express 4 leaves
\* the request unanswered, Express 5 passes it to the default error handler.
Uncaught == {"unanswered", "defaultErrorHandler"}

Reply(status, body) == [status |-> status, body |-> body]

\* No response has been written.
NoResponse == Reply(0, [message |-> "(none)"])

\* The catch block of a handler: res.status(500).json({ message: err?.message }).
Caught == Reply(500, [message |-> "mongoose error"])

\* User.findOne({ email }): the _id of the first matching document, 0 for null.
findOne(db, email) ==
    LET hits == {i \in DOMAIN db : db[i].email = email}
    IN  IF hits = {} THEN 0 ELSE CHOOSE i \in hits : \A j \in hits : i <= j

\* User.findById(id): the _id if a document has it, 0 for null.
findById(db, id) == IF id \in DOMAIN db THEN id ELSE 0

\* register, line 22: the required-fields check.
RegisterFieldsMissing(body) ==
    \/ Falsy(body.firstName)
    \/ Falsy(body.lastName)
    \/ Falsy(body.email)
    \/ Falsy(body.password)
    \/ Falsy(body.role)

\* Mutant of RegisterRoleInvalid: the check written to reject only unknown roles.
RegisterRoleInvalidAllowsAdmin(role) ==
    role # Role.USER /\ role # Role.AUTHOR /\ role # Role.ADMIN

\* register, line 26: the role check.
RegisterRoleInvalid(role) ==
    role # Role.USER /\ role # Role.AUTHOR

\* Mutant of approvalStatusOf: the two branches of the conditional swapped.
approvalStatusSwapped(role) ==
    IF role = Role.AUTHOR THEN Status.APPROVED ELSE Status.PENDING

\* register, line 38: approvalStatus.
approvalStatusOf(role) ==
    IF role = Role.AUTHOR THEN Status.PENDING ELSE Status.APPROVED

\* Mutant of NewUser: the document built with the submitted password.
NewUserPlainPassword(id, body, hashedPassword, roles, approval, createdBy) ==
    [_id |-> id, firstname |-> body.firstName, lastname |-> body.lastName,
     email |-> body.email, password |-> body.password,
     roles |-> roles, approval |-> approval, createdBy |-> createdBy]

\* new User({ firstname, lastname, email, password: hashedPassword, roles,
\* approval }).  createdBy records the handler that built the document.
NewUser(id, body, hashedPassword, roles, approval, createdBy) ==
    [_id |-> id, firstname |-> body.firstName, lastname |-> body.lastName,
     email |-> body.email, password |-> hashedPassword,
     roles |-> roles, approval |-> approval, createdBy |-> createdBy]

\* The data object of a 201 response.
CreatedData(newUser) ==
    [id |-> newUser._id, email |-> newUser.email,
     roles |-> newUser.roles, approval |-> newUser.approval]

\* register, lines 55-58: the message of the 201 response.
RegisteredMessage(role) ==
    IF role = Role.AUTHOR
    THEN "Author registration successful! Your account is awaiting admin approval..."
    ELSE "User registered successful..!"

\* Mutant of register: the existing-email branch dropped.
registerNoDuplicateCheck(body, db, fault, salt) ==
    IF RegisterFieldsMissing(body)
    THEN [res |-> Reply(400, [message |-> "Ooopsss.. All fields are required..!"]), users |-> db]
    ELSE IF RegisterRoleInvalid(body.role)
    THEN [res |-> Reply(400, [message |-> "Ooopsss.. Invalid role..!"]), users |-> db]
    ELSE IF fault = "findOne"
    THEN [res |-> Caught, users |-> db]
    ELSE IF fault = "save"
    THEN [res |-> Caught, users |-> db]
    ELSE LET newUser == NewUser(Len(db) + 1, body,
                                bcryptHash(body.password, SaltRounds, salt),
                                <<body.role>>, approvalStatusOf(body.role), "register")
         IN  [res |-> Reply(201, [message |-> RegisteredMessage(body.role),
                                  data |-> CreatedData(newUser)]),
              users |-> Append(db, newUser)]

\* register(req, res): the response sent and the collection afterwards.
register(body, db, fault, salt) ==
    IF RegisterFieldsMissing(body)
    THEN [res |-> Reply(400, [message |-> "Ooopsss.. All fields are required..!"]), users |-> db]
    ELSE IF RegisterRoleInvalid(body.role)
    THEN [res |-> Reply(400, [message |-> "Ooopsss.. Invalid role..!"]), users |-> db]
    ELSE IF fault = "findOne"
    THEN [res |-> Caught, users |-> db]
    ELSE IF findOne(db, body.email) # 0
    THEN [res |-> Reply(400, [message |-> "Email already exist..!"]), users |-> db]
    ELSE IF fault = "save"
    THEN [res |-> Caught, users |-> db]
    ELSE LET newUser == NewUser(Len(db) + 1, body,
                                bcryptHash(body.password, SaltRounds, salt),
                                <<body.role>>, approvalStatusOf(body.role), "register")
         IN  [res |-> Reply(201, [message |-> RegisteredMessage(body.role),
                                  data |-> CreatedData(newUser)]),
              users |-> Append(db, newUser)]

\* utils/tokens signAccessToken: the payload jwt.sign signs.
signAccessToken(user) == [sub |-> user._id, roles |-> user.roles]

\* The client holds no access token.
NoToken == [sub |-> 0, roles |-> <<>>]

\* login(req, res): the response sent and the token it carries, if any.
login(body, db, fault) ==
    IF fault = "findOne"
    THEN [res |-> Caught, token |-> NoToken]
    ELSE IF findOne(db, body.email) = 0
    THEN [res |-> Reply(401, [message |-> "Invalid Credentials..!"]), token |-> NoToken]
    ELSE LET existingUser == db[findOne(db, body.email)]
         IN  IF ~bcryptCompare(body.password, existingUser.password)
             THEN [res |-> Reply(401, [message |-> "Incorrect Password..!"]), token |-> NoToken]
             ELSE [res |-> Reply(200, [message |-> "Login Successful..!",
                                       data |-> [email |-> existingUser.email,
                                                 role |-> existingUser.roles,
                                                 accessToken |-> signAccessToken(existingUser)]]),
                   token |-> signAccessToken(existingUser)]

\* getMyProfile(req, res).  It has no try/catch: a rejection of findById
\* leaves the handler's promise rejected and unhandled.
getMyProfile(reqUser, db, fault, uncaught) ==
    IF reqUser = NoToken
    THEN Reply(401, [message |-> "Oooppss.. Unauthorized Access..!"])
    ELSE IF fault = "findById"
    THEN IF uncaught = "unanswered"
         THEN NoResponse
         ELSE Reply(500, [message |-> "Internal Server Error"])
    ELSE IF findById(db, reqUser.sub) = 0
    THEN Reply(404, [message |-> "Cannot find user..!"])
    ELSE LET user == db[findById(db, reqUser.sub)]
         IN  Reply(200, [message |-> "OK",
                         data |-> [firstname |-> user.firstname, lastname |-> user.lastname,
                                   email |-> user.email, roles |-> user.roles,
                                   approval |-> user.approval]])

\* adminRegister(req, res): the response sent and the collection afterwards.
adminRegister(reqUser, body, db, fault, salt) ==
    IF reqUser = NoToken
    THEN [res |-> Reply(403, [message |-> "Oooppss.. Unauthorized Access..!"]), users |-> db]
    ELSE IF Falsy(body.firstName) \/ Falsy(body.lastName) \/ Falsy(body.email) \/ Falsy(body.password)
    THEN [res |-> Reply(400, [message |-> "Oooppss.. All fields are required..!"]), users |-> db]
    ELSE IF fault = "findOne"
    THEN [res |-> Caught, users |-> db]
    ELSE IF findOne(db, body.email) # 0
    THEN [res |-> Reply(400, [message |-> "Email already exist..!"]), users |-> db]
    ELSE IF fault = "save"
    THEN [res |-> Caught, users |-> db]
    ELSE LET newUser == NewUser(Len(db) + 1, body,
                                bcryptHash(body.password, SaltRounds, salt),
                                <<Role.ADMIN>>, Status.APPROVED, "adminRegister")
         IN  [res |-> Reply(201, [message |-> "Admin registration successful..!",
                                  data |-> CreatedData(newUser)]),
              users |-> Append(db, newUser)]

\* middleware/auth authenticate: a request without a token is answered 401;
\* otherwise the verified payload becomes req.user.
authenticate(token) ==
    IF token = NoToken
    THEN [next |-> FALSE, res |-> Reply(401, [message |-> "No token"])]
    ELSE [next |-> TRUE, res |-> NoResponse]

\* middleware/authorizeRoles authorization(...allowedRoles): userRoles.some(...).
authorization(allowedRoles, reqUser) ==
    IF \E i \in DOMAIN reqUser.roles : reqUser.roles[i] \in allowedRoles
    THEN [next |-> TRUE, res |-> NoResponse]
    ELSE [next |-> FALSE, res |-> Reply(403, [message |-> "Forbidden"])]

\* The document the server creates at start-up when no ADMIN exists.
DefaultAdmin ==
    [_id |-> 1, firstname |-> "John", lastname |-> "Doe", email |-> DefaultAdminEmail,
     password |-> bcryptHash(DefaultAdminPassword, SaltRounds, "saltA"),
     roles |-> <<Role.ADMIN>>, approval |-> Status.APPROVED, createdBy |-> "startup"]

\* Request bodies explored: every field filled, and one body with each
\* single field left empty.
WithBlank(b) == {[b EXCEPT ![f] = ""] : f \in DOMAIN b}

FullRegisterBodies ==
    [firstName : {"Jane"}, lastName : {"Doe"}, email : Emails,
     password : Passwords, role : RoleInputs \ {""}]

RegisterBodies ==
    FullRegisterBodies \cup
    WithBlank([firstName |-> "Jane", lastName |-> "Doe", email |-> "jane@example.com",
               password |-> "securePassword123", role |-> Role.USER])

LoginBodies ==
    [email : Emails \cup {DefaultAdminEmail},
     password : Passwords \cup {DefaultAdminPassword, AdminPassword}]

FullAdminBodies ==
    [firstName : {"Jane"}, lastName : {"Doe"}, email : Emails, password : {AdminPassword}]

AdminBodies ==
    FullAdminBodies \cup
    WithBlank([firstName |-> "Jane", lastName |-> "Doe", email |-> "sam@example.com",
               password |-> AdminPassword])

Request(route, body, token, fault, uncaught) ==
    [route |-> route, body |-> body, token |-> token, fault |-> fault,
     uncaught |-> uncaught, before |-> users]

\* POST /auth/register
Register ==
    \E body \in RegisterBodies, fault \in Faults \ {"findById"}, salt \in Salts :
        LET out == register(body, users, fault, salt)
        IN  /\ users' = out.users
            /\ lastReq' = Request("POST /auth/register", body, NoToken, fault, "n/a")
            /\ lastRes' = out.res
            /\ UNCHANGED accessToken
            /\ UNCHANGED <<counterVars, routeVars, extVars>>

\* POST /auth/login; the client keeps the access token of a 200 response.
Login ==
    \E body \in LoginBodies, fault \in Faults \ {"findById", "save"} :
        LET out == login(body, users, fault)
        IN  /\ lastReq' = Request("POST /auth/login", body, NoToken, fault, "n/a")
            /\ lastRes' = out.res
            /\ accessToken' = IF out.res.status = 200 THEN out.token ELSE accessToken
            /\ UNCHANGED users
            /\ UNCHANGED <<counterVars, routeVars, extVars>>

\* GET /auth/me: authenticate, getMyProfile.
GetMyProfile ==
    \E token \in {NoToken, accessToken}, fault \in Faults \ {"findOne", "save"}, uncaught \in Uncaught :
        LET auth == authenticate(token)
        IN  /\ lastReq' = Request("GET /auth/me", <<>>, token, fault, uncaught)
            /\ lastRes' = IF auth.next
                          THEN getMyProfile(token, users, fault, uncaught)
                          ELSE auth.res
            /\ UNCHANGED <<users, accessToken>>
            /\ UNCHANGED <<counterVars, routeVars, extVars>>

\* POST /auth/admin/register: authenticate, authorization(ADMIN, AUTHOR), adminRegister.
AdminRegister ==
    \E token \in {NoToken, accessToken}, body \in AdminBodies,
       fault \in Faults \ {"findById"}, salt \in Salts :
        LET auth  == authenticate(token)
            authz == authorization({Role.ADMIN, Role.AUTHOR}, token)
            out   == adminRegister(token, body, users, fault, salt)
        IN  /\ lastReq' = Request("POST /auth/admin/register", body, token, fault, "n/a")
            /\ lastRes' = IF ~auth.next THEN auth.res
                          ELSE IF ~authz.next THEN authz.res
                          ELSE out.res
            /\ users' = IF auth.next /\ authz.next THEN out.users ELSE users
            /\ UNCHANGED accessToken
            /\ UNCHANGED <<counterVars, routeVars, extVars>>

AuthInit ==
    /\ users = <<DefaultAdmin>>
    /\ accessToken = NoToken
    /\ lastReq = [route |-> "none", body |-> <<>>, token |-> NoToken, fault |-> "none",
                  uncaught |-> "n/a", before |-> <<DefaultAdmin>>]
    /\ lastRes = NoResponse

AuthNext ==
    \/ Register
    \/ Login
    \/ GetMyProfile
    \/ AdminRegister

(***************************************************************************)
(* Day-06: the GET /test route stack                                       *)
(***************************************************************************)

\* Longest request log explored.
MaxServed == 4

\* req.headers.authorization: "null" stands for an absent header.
AuthorizationHeaders == {"null", "Bearer abc", "Basic xyz"}

\* A fresh ServerResponse.
FreshResponse == [headersSent |-> FALSE, statusCode |-> 200, body |-> "", threw |-> FALSE]

\* res.send(body): writes the response; once the headers are sent it throws
\* ERR_HTTP_HEADERS_SENT and the response already written stands.
send(res, body) ==
    IF res.headersSent
    THEN [res EXCEPT !.threw = TRUE]
    ELSE [res EXCEPT !.headersSent = TRUE, !.body = body]

\* sampleReusableMiddleware(req, res, next): the response object afterwards
\* and whether next() was called.
sampleReusableMiddleware(req, res) ==
    LET first == send(res, "")
    IN  IF first.threw
        THEN [res |-> first, nextCalled |-> FALSE]
        ELSE IF req.authorization = "null"
        THEN [res |-> send(first, ""), nextCalled |-> FALSE]
        ELSE [res |-> first, nextCalled |-> TRUE]

\* The final handler of app.get("/test", ...).
testHandler(req, res) ==
    send(res, "Hello.. This is the 'GET' method inside node express beckend, from '/test'")

\* The route stack of GET /test applied to one request.
TestRoute(req) ==
    LET mw == sampleReusableMiddleware(req, FreshResponse)
        ran == mw.nextCalled /\ ~mw.res.threw
        res == IF ran THEN testHandler(req, mw.res) ELSE mw.res
    IN  [req |-> req, middlewareInvoked |-> TRUE, nextCalled |-> mw.nextCalled,
         handlerRan |-> ran, statusCode |-> res.statusCode, body |-> res.body,
         threw |-> res.threw]

\* GET /test arrives at the route stack.
GetTest ==
    /\ Len(served) < MaxServed
    /\ \E h \in AuthorizationHeaders :
           served' = Append(served, TestRoute([authorization |-> h]))
    /\ UNCHANGED <<counterVars, authVars, extVars>>

RouteInit == served = <<>>

RouteNext == GetTest

(***************************************************************************)
(* Day-04-Redux-Classic: the two components that display the counter       *)
(***************************************************************************)

\* The components that subscribe to the store with useSelector.
Components == {"App", "CountView"}

\* RootState of the createReducer store.
RootState(counter) == [counter |-> counter]

\* App: useSelector((state) => state.counter.initCount).
AppSelector(state) == state.counter.initCount

\* Mutant of CountViewSelector: the component reads the initialState constant.
CountViewSelectorInitial(state) == classicInitialState.initCount

\* CountView: useSelector((state) => state.counter.initCount).
CountViewSelector(state) == state.counter.initCount

Selected(c, state) ==
    IF c = "App" THEN AppSelector(state) ELSE CountViewSelector(state)

\* A button of App is clicked: the store reduces the action and notifies the
\* subscribers whose selected value differs from what they display.
SyncClick(a, via) ==
    /\ InRange(counterReducer(classicCounter, a).initCount)
    /\ classicCounter' = counterReducer(classicCounter, a)
    /\ lastClassic' = [action |-> a, before |-> classicCounter, via |-> via]
    /\ pendingRender' = {c \in Components :
                            Selected(c, RootState(classicCounter')) # rendered[c]}
    /\ UNCHANGED rendered
    /\ UNCHANGED <<sliceCounter, lastSlice, authVars, routeVars, lockVars, appVars, navVars, feVars, lazyVars>>

ClickIncrement == SyncClick(incrementing, "handleIncrement")
ClickDecrement == SyncClick(decrementing, "handleDecrement")
ClickReset     == SyncClick(valueSetting(0), "handleReset")

\* App re-renders; its child <CountView /> is rendered with it.
RenderApp ==
    /\ "App" \in pendingRender
    /\ rendered' = [c \in Components |-> Selected(c, RootState(classicCounter))]
    /\ pendingRender' = {}
    /\ UNCHANGED <<counterVars, authVars, routeVars, lockVars, appVars, navVars, feVars, lazyVars>>

\* CountView re-renders on its own subscription.
RenderCountView ==
    /\ "CountView" \in pendingRender
    /\ rendered' = [rendered EXCEPT !["CountView"] =
                        Selected("CountView", RootState(classicCounter))]
    /\ pendingRender' = pendingRender \ {"CountView"}
    /\ UNCHANGED <<counterVars, authVars, routeVars, lockVars, appVars, navVars, feVars, lazyVars>>

SyncInit ==
    /\ rendered = [c \in Components |-> Selected(c, RootState(classicInitialState))]
    /\ pendingRender = {}

SyncNext ==
    \/ ClickIncrement
    \/ ClickDecrement
    \/ ClickReset
    \/ RenderApp
    \/ RenderCountView

(***************************************************************************)
(* Day-04: the three counter implementations side by side                  *)
(***************************************************************************)

\* Longest sequence of actions dispatched to the three counters.
MaxSteps == 3

\* React-Counter.tsx: the action creators of the useReducer emulation.
increment == [type |-> "counter/increment"]
decrement == [type |-> "counter/decrement"]
setValue(payload) == [type |-> "counter/setValue", payload |-> payload]

\* initialState of the useReducer emulation.
hookInitialState == [count |-> 0]

\* Mutant of reactCounterReducer: the setValue case resets to 0 whatever the payload.
reactCounterReducerIgnoresPayload(state, action) ==
    CASE action.type = "counter/increment" -> [state EXCEPT !.count = @ + 1]
      [] action.type = "counter/decrement" -> [state EXCEPT !.count = @ - 1]
      [] action.type = "counter/setValue"  -> [state EXCEPT !.count = 0]
      [] OTHER -> state

\* React-Counter.tsx counterReducer: the switch over action.type.
reactCounterReducer(state, action) ==
    CASE action.type = "counter/increment" -> [state EXCEPT !.count = state.count + 1]
      [] action.type = "counter/decrement" -> [state EXCEPT !.count = state.count - 1]
      [] action.type = "counter/setValue"  -> [state EXCEPT !.count = action.payload]
      [] OTHER -> state

\* The user-level operations, and the action each implementation dispatches for them.
Operations ==
    {[kind |-> "increment"], [kind |-> "decrement"]}
        \cup {[kind |-> "setValue", payload |-> p] : p \in Payloads}

ClassicActionOf(op) ==
    CASE op.kind = "increment" -> incrementing
      [] op.kind = "decrement" -> decrementing
      [] op.kind = "setValue"  -> valueSetting(op.payload)

SliceActionOf(op) ==
    CASE op.kind = "increment" -> sliceIncrementing
      [] op.kind = "decrement" -> sliceDecrementing
      [] op.kind = "setValue"  -> sliceValueSetting(op.payload)

HookActionOf(op) ==
    CASE op.kind = "increment" -> increment
      [] op.kind = "decrement" -> decrement
      [] op.kind = "setValue"  -> setValue(op.payload)

\* The same operation is dispatched to each of the three counters.
DispatchToAll(op) ==
    /\ Len(dispatched) < MaxSteps
    /\ classicCounter' = counterReducer(classicCounter, ClassicActionOf(op))
    /\ sliceCounter' = sliceReducer(sliceCounter, SliceActionOf(op))
    /\ hookCounter' = reactCounterReducer(hookCounter, HookActionOf(op))
    /\ lastClassic' = [action |-> ClassicActionOf(op), before |-> classicCounter, via |-> "dispatch"]
    /\ lastSlice' = [action |-> SliceActionOf(op), before |-> sliceCounter, via |-> "dispatch"]
    /\ dispatched' = Append(dispatched, op)
    /\ UNCHANGED <<authVars, routeVars, syncVars, appVars, navVars, feVars, lazyVars>>

AllIncrement == DispatchToAll([kind |-> "increment"])
AllDecrement == DispatchToAll([kind |-> "decrement"])
AllSetValue  == \E p \in Payloads : DispatchToAll([kind |-> "setValue", payload |-> p])

LockInit ==
    /\ hookCounter = hookInitialState
    /\ dispatched = <<>>

LockNext ==
    \/ AllIncrement
    \/ AllDecrement
    \/ AllSetValue

(***************************************************************************)
(* Day-06: the whole middleware pipeline of the server                     *)
(***************************************************************************)

\* Longest request log explored for the whole pipeline.
MaxHandled == 2

Methods == {"GET", "POST", "OPTIONS"}
Paths == {"/", "/hello", "/test", "/missing"}

\* The requests a client sends: only a POST carries a body, which may be
\* malformed JSON.
AppRequests ==
    {[method |-> m, path |-> p, authorization |-> h, malformed |-> b] :
        m \in Methods, p \in Paths, h \in {"null", "Bearer abc"}, b \in BOOLEAN}
    \ {r \in [method : Methods, path : Paths,
              authorization : {"null", "Bearer abc"}, malformed : {TRUE}] :
          r.method # "POST"}

\* app.use(express.json()): a malformed JSON body is passed to the error
\* handler, which answers 400; otherwise next().
expressJson(req, res) ==
    IF req.malformed
    THEN [res |-> [res EXCEPT !.headersSent = TRUE, !.statusCode = 400,
                              !.body = "SyntaxError"],
          nextCalled |-> FALSE]
    ELSE [res |-> res, nextCalled |-> TRUE]

\* app.use(cors({...})): a preflight is ended with 204; otherwise next().
corsMiddleware(req, res) ==
    IF req.method = "OPTIONS"
    THEN [res |-> [res EXCEPT !.headersSent = TRUE, !.statusCode = 204],
          nextCalled |-> FALSE]
    ELSE [res |-> res, nextCalled |-> TRUE]

GlobalMessage == "Hello.. This is a Global Middleware."

\* Mutant of globalMiddleware: res.send commented out, next() called.
globalMiddlewareCallsNext(req, res) ==
    [res |-> res, nextCalled |-> TRUE]

\* app.use((req, res, next) => { res.send(...) }): next() is commented out.
globalMiddleware(req, res) ==
    [res |-> send(res, GlobalMessage), nextCalled |-> FALSE]

\* app.get("/", handler).
rootHandler(req, res) ==
    [res |-> send(res, "Hello.. This is the 'GET' method inside node express beckend."),
     nextCalled |-> FALSE]

\* The two pass-through middlewares of app.get("/hello", ...).
helloMiddleware(req, res) == [res |-> res, nextCalled |-> TRUE]

\* The final handler of app.get("/hello", ...).
helloHandler(req, res) ==
    [res |-> send(res, "Hello.. This is the 'GET' method inside node express beckend, from '/hello'"),
     nextCalled |-> FALSE]

\* The layers in registration order; a route layer applies to GET of its path.
Layers ==
    <<[name |-> "express.json", route |-> "*"],
      [name |-> "cors", route |-> "*"],
      [name |-> "globalMiddleware", route |-> "*"],
      [name |-> "GET / handler", route |-> "/"],
      [name |-> "GET /hello middleware 1", route |-> "/hello"],
      [name |-> "GET /hello middleware 2", route |-> "/hello"],
      [name |-> "GET /hello handler", route |-> "/hello"],
      [name |-> "GET /test sampleReusableMiddleware", route |-> "/test"],
      [name |-> "GET /test handler", route |-> "/test"]>>

RouteLayers == {Layers[i].name : i \in 4..Len(Layers)}

LayerMatches(layer, req) ==
    layer.route = "*" \/ (req.method = "GET" /\ req.path = layer.route)

RunLayer(layer, req, res) ==
    CASE layer.name = "express.json" -> expressJson(req, res)
      [] layer.name = "cors" -> corsMiddleware(req, res)
      [] layer.name = "globalMiddleware" -> globalMiddleware(req, res)
      [] layer.name = "GET / handler" -> rootHandler(req, res)
      [] layer.name \in {"GET /hello middleware 1", "GET /hello middleware 2"} ->
             helloMiddleware(req, res)
      [] layer.name = "GET /hello handler" -> helloHandler(req, res)
      [] layer.name = "GET /test sampleReusableMiddleware" ->
             sampleReusableMiddleware(req, res)
      [] layer.name = "GET /test handler" ->
             [res |-> testHandler(req, res), nextCalled |-> FALSE]

\* Express walks the stack from layer i; the finalhandler answers 404 when
\* the stack is exhausted with nothing sent.
RECURSIVE RunStack(_, _, _, _)
RunStack(i, req, res, executed) ==
    IF i > Len(Layers)
    THEN [req |-> req, executed |-> executed,
          statusCode |-> IF res.headersSent THEN res.statusCode ELSE 404,
          body |-> res.body, threw |-> res.threw]
    ELSE IF ~LayerMatches(Layers[i], req)
    THEN RunStack(i + 1, req, res, executed)
    ELSE LET r == RunLayer(Layers[i], req, res)
             ex == executed \cup {Layers[i].name}
         IN  IF r.nextCalled /\ ~r.res.threw
             THEN RunStack(i + 1, req, r.res, ex)
             ELSE [req |-> req, executed |-> ex, statusCode |-> r.res.statusCode,
                   body |-> r.res.body, threw |-> r.res.threw]

\* The app applied to one request.
App(req) == RunStack(1, req, FreshResponse, {})

Handle(m) ==
    /\ Len(handled) < MaxHandled
    /\ \E req \in AppRequests :
           /\ req.method = m
           /\ handled' = Append(handled, App(req))
    /\ UNCHANGED <<counterVars, authVars, routeVars, syncVars, lockVars, navVars, feVars, lazyVars>>

HandleGet     == Handle("GET")
HandlePost    == Handle("POST")
HandleOptions == Handle("OPTIONS")

AppInit == handled = <<>>

AppNext ==
    \/ HandleGet
    \/ HandlePost
    \/ HandleOptions

(***************************************************************************)
(* Day-03: the component-based router (Part 01) and the configuration-     *)
(* based router (Part 02), both resolved by React Router's matchRoutes     *)
(***************************************************************************)

\* Longest browsing history explored.
MaxVisits == 2

\* Values put after /contact/ in the address bar.
ContactValues == {"123", "abc", "", "a/b"}

\* The pathnames visited.
Urls ==
    {"/", "/home", "/about", "/login", "/contact", "/home/", "/dashboard",
     "/login/help"}
        \cup {"/contact/" \o x : x \in ContactValues}

\* s.split("/"): the pieces of s between the slashes.
RECURSIVE SplitFrom(_, _, _)
SplitFrom(s, i, piece) ==
    IF i > Len(s) THEN <<piece>>
    ELSE IF SubSeq(s, i, i) = "/"
    THEN <<piece>> \o SplitFrom(s, i + 1, "")
    ELSE SplitFrom(s, i + 1, piece \o SubSeq(s, i, i))

Split(s) == SplitFrom(s, 1, "")

\* The non-empty pieces of a route path.
Segments(path) == SelectSeq(Split(path), LAMBDA piece : piece # "")

Drop(seq, n) == SubSeq(seq, n + 1, Len(seq))

\* A route object: path "null" stands for a route declared without a path.
Route(path, index, element, children) ==
    [path |-> path, index |-> index, element |-> element, children |-> children]

\* Part 01: the <Routes> tree of App.
Part01RoutesLoginInLayout ==
    <<Route("/", FALSE, "Layout",
            <<Route("null", TRUE, "Default", <<>>),
              Route("home", FALSE, "Home", <<>>),
              Route("about", FALSE, "About", <<>>),
              Route("login", FALSE, "Login", <<>>)>>),
      Route("/contact/:id", FALSE, "Contact", <<>>)>>

Part01Routes ==
    <<Route("/", FALSE, "Layout",
            <<Route("null", TRUE, "Default", <<>>),
              Route("home", FALSE, "Home", <<>>),
              Route("about", FALSE, "About", <<>>)>>),
      Route("/login", FALSE, "Login", <<>>),
      Route("/contact/:id", FALSE, "Contact", <<>>)>>

\* Part 02: the route objects given to createBrowserRouter.
Part02RoutesContactInLayout ==
    <<Route("/login", FALSE, "Login", <<>>),
      Route("/", FALSE, "Layout",
            <<Route("/", FALSE, "Default", <<>>),
              Route("/home", FALSE, "Home", <<>>),
              Route("/about", FALSE, "About", <<>>),
              Route("/contact/:id", FALSE, "Contact", <<>>)>>)>>

Part02Routes ==
    <<Route("/login", FALSE, "Login", <<>>),
      Route("/contact/:id", FALSE, "Contact", <<>>),
      Route("/", FALSE, "Layout",
            <<Route("/", FALSE, "Default", <<>>),
              Route("/home", FALSE, "Home", <<>>),
              Route("/about", FALSE, "About", <<>>)>>)>>

IsDynamic(segment) == Len(segment) > 0 /\ SubSeq(segment, 1, 1) = ":"

\* computeScore(path, index): the split of the joined path starts with the
\* empty piece before the leading slash.
RECURSIVE SegmentScore(_)
SegmentScore(pieces) ==
    IF pieces = <<>> THEN 0
    ELSE (IF Head(pieces) = "" THEN 1
          ELSE IF IsDynamic(Head(pieces)) THEN 3 ELSE 10)
         + SegmentScore(Tail(pieces))

computeScore(segments, index) ==
    LET pieces == IF segments = <<>> THEN <<"", "">> ELSE <<"">> \o segments
    IN  Len(pieces) + (IF index THEN 2 ELSE 0) + SegmentScore(pieces)

\* flattenRoutes: the branches of routes[i..], children before their parent;
\* a child path that starts with "/" is taken relative to its parent's path.
RECURSIVE flattenRoutes(_, _, _, _)
flattenRoutes(routes, i, parentsMeta, parentSegments) ==
    IF i > Len(routes) THEN <<>>
    ELSE LET route == routes[i]
             absolute == route.path # "null" /\ Len(route.path) > 0
                            /\ SubSeq(route.path, 1, 1) = "/"
             relative == IF route.path = "null" THEN <<>>
                         ELSE IF absolute
                         THEN Drop(Segments(route.path), Len(parentSegments))
                         ELSE Segments(route.path)
             segments == parentSegments \o relative
             meta == Append(parentsMeta,
                            [element |-> route.element, childrenIndex |-> i - 1])
             kids == flattenRoutes(route.children, 1, meta, segments)
             self == IF route.path = "null" /\ ~route.index THEN <<>>
                     ELSE <<[segments |-> segments,
                             score |-> computeScore(segments, route.index),
                             routesMeta |-> meta]>>
         IN  kids \o self \o flattenRoutes(routes, i + 1, parentsMeta, parentSegments)

ChildrenIndexes(branch) ==
    [k \in 1..Len(branch.routesMeta) |-> branch.routesMeta[k].childrenIndex]

\* compareIndexes: siblings keep their declaration order.
Siblings(a, b) ==
    LET ia == ChildrenIndexes(a)
        ib == ChildrenIndexes(b)
    IN  /\ Len(ia) = Len(ib)
        /\ SubSeq(ia, 1, Len(ia) - 1) = SubSeq(ib, 1, Len(ib) - 1)

\* The rankRouteBranches comparator: a sorts strictly before b.
Before(a, b) ==
    \/ a.score > b.score
    \/ /\ a.score = b.score
       /\ Siblings(a, b)
       /\ ChildrenIndexes(a)[Len(a.routesMeta)] < ChildrenIndexes(b)[Len(b.routesMeta)]

RECURSIVE InsertBranch(_, _)
InsertBranch(b, sorted) ==
    IF sorted = <<>> THEN <<b>>
    ELSE IF Before(b, Head(sorted)) THEN <<b>> \o sorted
    ELSE <<Head(sorted)>> \o InsertBranch(b, Tail(sorted))

\* rankRouteBranches: a stable sort by the comparator.
RECURSIVE rankRouteBranches(_)
rankRouteBranches(branches) ==
    IF branches = <<>> THEN <<>>
    ELSE InsertBranch(branches[Len(branches)],
                      rankRouteBranches(SubSeq(branches, 1, Len(branches) - 1)))

\* The pieces of a pathname that the compiled pattern ^/a/([^/]+)/*$ sees:
\* the leading slash and any trailing slashes are not pieces.
RECURSIVE StripTrailing(_)
StripTrailing(pieces) ==
    IF pieces # <<>> /\ pieces[Len(pieces)] = ""
    THEN StripTrailing(SubSeq(pieces, 1, Len(pieces) - 1))
    ELSE pieces

PathnamePieces(pathname) == StripTrailing(Tail(Split(pathname)))

\* matchPath: a static segment matches itself, a dynamic one any non-empty piece.
BranchMatches(branch, pieces) ==
    /\ Len(branch.segments) = Len(pieces)
    /\ \A k \in 1..Len(pieces) :
           IF IsDynamic(branch.segments[k])
           THEN pieces[k] # ""
           ELSE branch.segments[k] = pieces[k]

NoMatch == [page |-> "none", header |-> FALSE, id |-> "undefined"]

\* What the matched branch renders: the last element is the page, Layout
\* renders <Header /> above its <Outlet />, and useParams gives id.
Rendered(branch, pieces) ==
    LET n == Len(branch.routesMeta)
        dyn == {k \in 1..Len(pieces) : IsDynamic(branch.segments[k])}
    IN  [page |-> branch.routesMeta[n].element,
         header |-> \E k \in 1..n : branch.routesMeta[k].element = "Layout",
         id |-> IF dyn = {} THEN "undefined" ELSE pieces[CHOOSE k \in dyn : TRUE]]

\* matchRoutes: the first ranked branch that matches the pathname.
matchRoutes(routes, pathname) ==
    LET ranked == rankRouteBranches(flattenRoutes(routes, 1, <<>>, <<>>))
        pieces == PathnamePieces(pathname)
        hits == {k \in 1..Len(ranked) : BranchMatches(ranked[k], pieces)}
    IN  IF hits = {} THEN NoMatch
        ELSE Rendered(ranked[CHOOSE k \in hits : \A j \in hits : k <= j], pieces)

\* The address bar is set to a URL; each router resolves it.
Visit ==
    /\ Len(visited) < MaxVisits
    /\ \E url \in Urls :
           visited' = Append(visited, [url |-> url,
                                       part01 |-> matchRoutes(Part01Routes, url),
                                       part02 |-> matchRoutes(Part02Routes, url)])
    /\ UNCHANGED <<counterVars, authVars, routeVars, syncVars, lockVars, appVars, feVars, lazyVars>>

NavInit == visited = <<>>

NavNext == Visit

(***************************************************************************)
(* Day-07 frontend: the router, the auth context and the axios interceptor *)
(***************************************************************************)

\* The access tokens the backend hands out, one per account.
Tokens == {"jwt.jane", "jwt.sam"}

TokenOwner(token) ==
    IF token = "jwt.jane" THEN "jane@example.com" ELSE "sam@example.com"

\* The <Routes> tree of Router.
BlogRoutes ==
    <<Route("/", FALSE, "Layout",
            <<Route("null", TRUE, "Default", <<>>),
              Route("home", FALSE, "Home", <<>>)>>),
      Route("/login", FALSE, "Login", <<>>),
      Route("/register", FALSE, "Register", <<>>)>>

BlogPaths == {"/", "/home", "/login", "/register"}

\* What is on screen at a location.
ScreenAt(path) == [location |-> path, shown |-> matchRoutes(BlogRoutes, path)]

PUBLIC_ENDPOINTS == <<"/auth/register", "/auth/login">>

\* String.prototype.includes.
includes(str, search) ==
    \E i \in 1..(Len(str) - Len(search) + 1) :
        SubSeq(str, i, i + Len(search) - 1) = search

\* A request config before the interceptor runs.
Config(url) == [url |-> url, Authorization |-> "undefined"]

\* Mutant of interceptor: the public-endpoint test is dropped.
interceptorAttachesAlways(myConfig, token) ==
    IF token # "null" /\ token # ""
    THEN [myConfig EXCEPT !.Authorization = "Bearer " \o token]
    ELSE myConfig

\* axiosConfig.interceptors.request.use(...): token is what
\* localStorage.getItem("accessToken") returned.
interceptor(myConfig, token) ==
    LET isPublic == \E k \in 1..Len(PUBLIC_ENDPOINTS) :
                        includes(myConfig.url, PUBLIC_ENDPOINTS[k])
    IN  IF (token # "null" /\ token # "") /\ ~isPublic
        THEN [myConfig EXCEPT !.Authorization = "Bearer " \o token]
        ELSE myConfig

\* The config that leaves the client, with the token that was stored.
Sent(url) ==
    [config |-> interceptor(Config(url), storedToken), stored |-> storedToken]

\* The address bar or a <Link> changes the location.
Navigate ==
    /\ \E path \in BlogPaths : blogScreen' = ScreenAt(path)
    /\ UNCHANGED <<storedToken, contextUser, lastConfig>>
    /\ UNCHANGED <<counterVars, authVars, routeVars, syncVars, lockVars, appVars, navVars, lazyVars>>

\* services/auth.ts register.
PostRegister ==
    /\ lastConfig' = Sent("/auth/register")
    /\ UNCHANGED <<storedToken, contextUser, blogScreen>>
    /\ UNCHANGED <<counterVars, authVars, routeVars, syncVars, lockVars, appVars, navVars, lazyVars>>

\* services/auth.ts login; on success the page stores the accessToken.
PostLogin ==
    /\ lastConfig' = Sent("/auth/login")
    /\ \/ UNCHANGED storedToken
       \/ \E t \in Tokens : storedToken' = t
    /\ UNCHANGED <<contextUser, blogScreen>>
    /\ UNCHANGED <<counterVars, authVars, routeVars, syncVars, lockVars, appVars, navVars, lazyVars>>

\* services/auth.ts getMyProfile; the caller sets the context user from the
\* answer, or null when the request is rejected.
FetchMyProfile ==
    /\ lastConfig' = Sent("/auth/me")
    /\ contextUser' = IF lastConfig'.config.Authorization = "undefined"
                      THEN "null"
                      ELSE TokenOwner(storedToken)
    /\ UNCHANGED <<storedToken, blogScreen>>
    /\ UNCHANGED <<counterVars, authVars, routeVars, syncVars, lockVars, appVars, navVars, lazyVars>>

\* services/auth.ts adminRegister.
PostAdminRegister ==
    /\ lastConfig' = Sent("/auth/admin/register")
    /\ UNCHANGED <<storedToken, contextUser, blogScreen>>
    /\ UNCHANGED <<counterVars, authVars, routeVars, syncVars, lockVars, appVars, navVars, lazyVars>>

\* URLs of further calls made through the same axios instance.
OtherUrls == {"/posts", "/auth/login/history", "/auth/logins"}

OtherRequest ==
    /\ \E url \in OtherUrls : lastConfig' = Sent(url)
    /\ UNCHANGED <<storedToken, contextUser, blogScreen>>
    /\ UNCHANGED <<counterVars, authVars, routeVars, syncVars, lockVars, appVars, navVars, lazyVars>>

NoConfig == [config |-> Config("none"), stored |-> "null"]

BlogInit ==
    /\ storedToken = "null"
    /\ contextUser = "null"
    /\ blogScreen = ScreenAt("/")
    /\ lastConfig = NoConfig

BlogNext ==
    \/ Navigate
    \/ PostRegister
    \/ PostLogin
    \/ FetchMyProfile
    \/ PostAdminRegister
    \/ OtherRequest

(***************************************************************************)
(* Day-04 lazy loading: one root <Suspense> around the RouterProvider      *)
(***************************************************************************)

\* const X = lazy(() => import('./pages/X')); Layout is imported eagerly.
LazyPages == {"Login", "Default", "Home", "About", "Contact"}

\* The route objects given to createBrowserRouter.
LazyRoutes ==
    <<Route("/login", FALSE, "Login", <<>>),
      Route("/contact/:id", FALSE, "Contact", <<>>),
      Route("/", FALSE, "Layout",
            <<Route("/", FALSE, "Default", <<>>),
              Route("/home", FALSE, "Home", <<>>),
              Route("/about", FALSE, "About", <<>>)>>)>>

LazyUrls == {"/", "/home", "/about", "/login", "/contact/123", "/nowhere"}

\* The URLs whose route is nested under Layout.
LayoutUrls == {"/", "/home", "/about"}

\* The element of the matched route suspends while its module is not loaded.
Suspends(url, loaded) ==
    LET page == matchRoutes(LazyRoutes, url).page
    IN  page \in LazyPages /\ page \notin loaded

\* What <Suspense fallback={<div>Loading...</div>}> shows in place of
\* everything inside it while a descendant is suspended.
Fallback == [header |-> FALSE, fallback |-> TRUE, page |-> "none"]

\* App: <Suspense><RouterProvider router={router} /></Suspense> rendered
\* for a location with the given loaded modules.
AppScreen(url, loaded) ==
    LET m == matchRoutes(LazyRoutes, url)
    IN  IF Suspends(url, loaded)
        THEN Fallback
        ELSE [header |-> m.header, fallback |-> FALSE, page |-> m.page]

\* The document is loaded at a URL: no page module is loaded yet.
OpenUrl ==
    /\ \E url \in LazyUrls :
           /\ lazyLocation' = url
           /\ lazyLoaded' = {}
           /\ lazyScreen' = AppScreen(url, {})
    /\ UNCHANGED <<counterVars, authVars, routeVars, syncVars, lockVars, appVars, navVars, feVars>>

\* A link of the displayed page is followed (client-side navigation). When
\* the target suspends, the router's state update either is a transition,
\* and React keeps the current screen, or is not, and the fallback shows.
ClickLink ==
    /\ ~lazyScreen.fallback
    /\ \E url \in LazyUrls, transition \in BOOLEAN :
           /\ lazyLocation' = url
           /\ lazyScreen' = IF Suspends(url, lazyLoaded) /\ transition
                            THEN lazyScreen
                            ELSE AppScreen(url, lazyLoaded)
    /\ UNCHANGED lazyLoaded
    /\ UNCHANGED <<counterVars, authVars, routeVars, syncVars, lockVars, appVars, navVars, feVars>>

\* The import() of the page at the current location resolves.
ModuleLoaded ==
    /\ Suspends(lazyLocation, lazyLoaded)
    /\ lazyLoaded' = lazyLoaded \cup {matchRoutes(LazyRoutes, lazyLocation).page}
    /\ lazyScreen' = AppScreen(lazyLocation, lazyLoaded')
    /\ UNCHANGED lazyLocation
    /\ UNCHANGED <<counterVars, authVars, routeVars, syncVars, lockVars, appVars, navVars, feVars>>

LazyInit ==
    /\ lazyLocation = "/"
    /\ lazyLoaded = {}
    /\ lazyScreen = AppScreen("/", {})

LazyNext ==
    \/ OpenUrl
    \/ ClickLink
    \/ ModuleLoaded

(***************************************************************************)
(* Specifications                                                          *)
(***************************************************************************)

Init == CounterInit /\ AuthInit /\ RouteInit /\ SyncInit /\ LockInit
        /\ AppInit /\ NavInit /\ BlogInit /\ LazyInit

SpecCounter   == Init /\ [][CounterNext]_vars
SpecAuth      == Init /\ [][AuthNext]_vars
SpecTestRoute == Init /\ [][RouteNext]_vars
SpecCounterSync == Init /\ [][SyncNext]_vars
SpecLockstep  == Init /\ [][LockNext]_vars
SpecServer    == Init /\ [][AppNext]_vars
SpecRouter    == Init /\ [][NavNext]_vars
SpecBlogFe    == Init /\ [][BlogNext]_vars
SpecLazy      == Init /\ [][LazyNext]_vars

(***************************************************************************)
(* Properties                                                              *)
(***************************************************************************)

\* The request just handled is a register request with every required field
\* filled and role USER or AUTHOR.
ValidRegisterRequest ==
    /\ lastReq.route = "POST /auth/register"
    /\ \A f \in {"firstName", "lastName", "email", "password"} : lastReq.body[f] # ""
    /\ lastReq.body.role \in {"USER", "AUTHOR"}

\* A user with the request's email was persisted before the request was handled.
EmailAlreadyPersisted ==
    \E i \in DOMAIN lastReq.before : lastReq.before[i].email = lastReq.body.email

\* C1 as stated: a valid register request whose email is already persisted
\* is answered 400 and the set of persisted users is unchanged.
C1_DuplicateEmailAlways400 ==
    (ValidRegisterRequest /\ EmailAlreadyPersisted)
        => (lastRes.status = 400 /\ users = lastReq.before)

\* C1 amended: a valid register request whose email is already persisted
\* never creates a user; it is answered 400, except that it is answered 500
\* when the User.findOne lookup itself rejects.
C1_DuplicateEmailRejected ==
    (ValidRegisterRequest /\ EmailAlreadyPersisted)
        => /\ users = lastReq.before
           /\ lastReq.fault # "findOne" => lastRes.status = 400
           /\ lastReq.fault = "findOne" => lastRes.status = 500

\* C1 witness: a duplicate registration was answered 400 "Email already exist..!".
C1_Witness ==
    /\ ValidRegisterRequest
    /\ EmailAlreadyPersisted
    /\ lastReq.fault = "none"
    /\ lastRes.status = 400
    /\ lastRes.body.message = "Email already exist..!"
    /\ Len(users) = 2

\* C2: in both stores, reducing the incrementing action from a state whose
\* counter is n yields a state whose counter is exactly n + 1.
C2_IncrementAddsOne ==
    /\ lastClassic.action.type = "myCounter/myIncrement"
           => classicCounter.initCount = lastClassic.before.initCount + 1
    /\ lastSlice.action.type = "counter/incrementing"
           => sliceCounter.count = lastSlice.before.count + 1

\* C2 witness: both stores were incremented, one from a positive and one from
\* a negative counter.
C2_Witness ==
    /\ lastClassic.action.type = "myCounter/myIncrement"
    /\ lastClassic.before.initCount = 2
    /\ classicCounter.initCount = 3
    /\ lastSlice.action.type = "counter/incrementing"
    /\ lastSlice.before.count = -2
    /\ sliceCounter.count = -1

\* C3: reducing valueSetting(p) leaves the counter at exactly p whatever it
\* was before, and after the Reset button handler the counter is 0.
C3_ValueSettingSetsPayload ==
    /\ lastClassic.action.type = "myCounter/mySetValue"
           => classicCounter.initCount = lastClassic.action.payload
    /\ lastSlice.action.type = "counter/valueSetting"
           => sliceCounter.count = lastSlice.action.payload
    /\ lastClassic.via = "handleReset" => classicCounter.initCount = 0
    /\ lastSlice.via = "handleReset" => sliceCounter.count = 0

\* C3 witness: Reset was clicked on a non-zero counter in one store, and a
\* non-zero payload replaced a different non-zero counter in the other.
C3_Witness ==
    /\ lastSlice.via = "handleReset"
    /\ lastSlice.before.count = 2
    /\ sliceCounter.count = 0
    /\ lastClassic.action.type = "myCounter/mySetValue"
    /\ lastClassic.action.payload = -1
    /\ lastClassic.before.initCount = 3
    /\ classicCounter.initCount = -1

\* The Mongoose call named by the request's fault was reached by its handler.
FaultReached ==
    \/ /\ lastReq.route = "POST /auth/register"
       /\ \A f \in DOMAIN lastReq.body : lastReq.body[f] # ""
       /\ lastReq.body.role \in {"USER", "AUTHOR"}
       /\ \/ lastReq.fault = "findOne"
          \/ lastReq.fault = "save" /\ ~EmailAlreadyPersisted
    \/ /\ lastReq.route = "POST /auth/login"
       /\ lastReq.fault = "findOne"
    \/ /\ lastReq.route = "GET /auth/me"
       /\ lastReq.token # NoToken
       /\ lastReq.fault = "findById"
    \/ /\ lastReq.route = "POST /auth/admin/register"
       /\ lastReq.token # NoToken
       /\ \E i \in DOMAIN lastReq.token.roles : lastReq.token.roles[i] \in {"ADMIN", "AUTHOR"}
       /\ \A f \in DOMAIN lastReq.body : lastReq.body[f] # ""
       /\ \/ lastReq.fault = "findOne"
          \/ lastReq.fault = "save" /\ ~EmailAlreadyPersisted

\* C4 as stated: whenever the Mongoose call a handler makes rejects, the
\* request is answered 500; and every handled request has received a response.
C4_RejectionAnswered500 ==
    /\ FaultReached => lastRes.status = 500
    /\ lastReq.route # "none" => lastRes # NoResponse

\* C5 as stated: a request without Authorization header that reaches
\* sampleReusableMiddleware is answered 401 'Unauthorized', next() is not
\* called and the route handler does not run.
C5_NoHeaderAnswered401 ==
    \A i \in DOMAIN served :
        (served[i].middlewareInvoked /\ served[i].req.authorization = "null")
            => /\ served[i].statusCode = 401
               /\ served[i].body = "Unauthorized"
               /\ ~served[i].nextCalled
               /\ ~served[i].handlerRan

\* C6: a register request whose role is neither USER nor AUTHOR is answered
\* 400 and persists nothing; no user created by register has the ADMIN role.
C6_RegisterOnlyUserOrAuthor ==
    /\ (lastReq.route = "POST /auth/register" /\ lastReq.body.role \notin {"USER", "AUTHOR"})
           => (lastRes.status = 400 /\ users = lastReq.before)
    /\ \A i \in DOMAIN users :
           users[i].createdBy = "register"
               => \A k \in DOMAIN users[i].roles : users[i].roles[k] # "ADMIN"

\* C6 witness: an otherwise complete registration asking for ADMIN was
\* answered 400 and created nothing.
C6_Witness ==
    /\ lastReq.route = "POST /auth/register"
    /\ lastReq.body.role = "ADMIN"
    /\ \A f \in DOMAIN lastReq.body : lastReq.body[f] # ""
    /\ ~EmailAlreadyPersisted
    /\ lastReq.fault = "none"
    /\ lastRes.status = 400
    /\ users = lastReq.before

\* The account a login request names is an AUTHOR not approved by an admin.
LoginOfUnapprovedAuthor ==
    /\ lastReq.route = "POST /auth/login"
    /\ \E i \in DOMAIN lastReq.before :
           /\ lastReq.before[i].email = lastReq.body.email
           /\ \E k \in DOMAIN lastReq.before[i].roles : lastReq.before[i].roles[k] = "AUTHOR"
           /\ lastReq.before[i].approval \in {"PENDING", "REJECTED"}

\* C7 as stated: a login for an AUTHOR account whose approval is PENDING or
\* REJECTED is rejected and returns no access token.
C7_UnapprovedAuthorCannotLogin ==
    LoginOfUnapprovedAuthor
        => /\ lastRes.status # 200
           /\ "data" \notin DOMAIN lastRes.body

\* The plain-text passwords a client can submit.
PlainTexts == Passwords \cup {AdminPassword, DefaultAdminPassword, ""}

\* C8: every document persisted by register or adminRegister stores a bcrypt
\* hash with cost 10, never a plain-text password; the document a 201 response
\* reports stores the hash of the password that request submitted.
C8_PasswordsStoredHashed ==
    /\ \A i \in DOMAIN users :
           users[i].createdBy \in {"register", "adminRegister"}
               => /\ users[i].password \notin PlainTexts
                  /\ \E p \in PlainTexts, salt \in Salts :
                         users[i].password = "$2a$10$" \o salt \o "$H(" \o p \o ")"
    /\ (lastReq.route \in {"POST /auth/register", "POST /auth/admin/register"}
          /\ lastRes.status = 201)
           => /\ users[Len(users)].password # lastReq.body.password
              /\ \E salt \in Salts :
                     users[Len(users)].password
                         = "$2a$10$" \o salt \o "$H(" \o lastReq.body.password \o ")"

\* C8 witness: register and adminRegister have each persisted a document.
C8_Witness ==
    /\ \E i \in DOMAIN users : users[i].createdBy = "register"
    /\ \E i \in DOMAIN users : users[i].createdBy = "adminRegister"
    /\ lastReq.route = "POST /auth/admin/register"
    /\ lastRes.status = 201

\* C9 as stated: every login answered 200 carries an access token and a
\* refresh token in its response data.
C9_LoginReturnsBothTokens ==
    (lastReq.route = "POST /auth/login" /\ lastRes.status = 200)
        => {"accessToken", "refreshToken"} \subseteq DOMAIN lastRes.body.data

\* C10: a user created by register has approval PENDING exactly when the
\* requested role is AUTHOR and APPROVED exactly when it is USER, and its
\* roles list is exactly [role].
C10_RegisterApprovalFollowsRole ==
    /\ (lastReq.route = "POST /auth/register" /\ lastRes.status = 201)
           => LET doc == users[Len(users)]
              IN  /\ Len(users) = Len(lastReq.before) + 1
                  /\ doc.createdBy = "register"
                  /\ doc.email = lastReq.body.email
                  /\ doc.roles = <<lastReq.body.role>>
                  /\ doc.approval = "PENDING" <=> lastReq.body.role = "AUTHOR"
                  /\ doc.approval = "APPROVED" <=> lastReq.body.role = "USER"
    /\ \A i \in DOMAIN users :
           users[i].createdBy = "register"
               => /\ Len(users[i].roles) = 1
                  /\ users[i].approval = "PENDING" <=> users[i].roles[1] = "AUTHOR"
                  /\ users[i].approval = "APPROVED" <=> users[i].roles[1] = "USER"

\* C10 witness: register has created an AUTHOR awaiting approval and an
\* approved USER.
C10_Witness ==
    /\ \E i \in DOMAIN users :
           /\ users[i].createdBy = "register"
           /\ users[i].roles = <<"AUTHOR">>
           /\ users[i].approval = "PENDING"
    /\ \E i \in DOMAIN users :
           /\ users[i].createdBy = "register"
           /\ users[i].roles = <<"USER">>
           /\ users[i].approval = "APPROVED"
    /\ lastReq.route = "POST /auth/register"
    /\ lastRes.status = 201

\* C13: whenever no re-render is pending, App and CountView display the
\* same count, and it is the counter held in the store.
C13_ComponentsInSync ==
    pendingRender = {}
        => /\ rendered["App"] = rendered["CountView"]
           /\ rendered["App"] = classicCounter.initCount

\* C13 witness: after clicks and re-renders both components display the
\* non-zero count of the store, the last click having been a decrement.
C13_Witness ==
    /\ pendingRender = {}
    /\ lastClassic.via = "handleDecrement"
    /\ classicCounter.initCount = 2
    /\ rendered["App"] = 2
    /\ rendered["CountView"] = 2

\* C17: after every step of every sequence of increment, decrement and
\* set-value operations applied from the initial state, the createReducer
\* store, the createSlice store and the useReducer state hold the same value.
C17_ThreeCountersAgree ==
    /\ classicCounter.initCount = sliceCounter.count
    /\ sliceCounter.count = hookCounter.count

\* C17 witness: a set-value, an increment and a decrement have been applied
\* and the three counters hold the resulting value.
C17_Witness ==
    /\ dispatched = <<[kind |-> "setValue", payload |-> 2],
                      [kind |-> "increment"], [kind |-> "decrement"]>>
    /\ classicCounter.initCount = 2
    /\ sliceCounter.count = 2
    /\ hookCounter.count = 2

Documented(url) ==
    CASE url = "/"      -> [page |-> "Default", header |-> TRUE, id |-> "undefined"]
      [] url = "/home"  -> [page |-> "Home", header |-> TRUE, id |-> "undefined"]
      [] url = "/about" -> [page |-> "About", header |-> TRUE, id |-> "undefined"]
      [] url = "/login" -> [page |-> "Login", header |-> FALSE, id |-> "undefined"]

FixedUrls == {"/", "/home", "/about", "/login"}

\* Values that are one non-empty path segment.
SingleSegment(x) == x # "" /\ \A k \in 1..Len(x) : SubSeq(x, k, k) # "/"

C11_HomeOnlyWhenAuthenticated ==
    blogScreen.shown.page = "Home" => contextUser # "null"

\* C12: the config leaving the interceptor carries Authorization
\* 'Bearer <token>' if and only if a token was stored and the URL contains
\* neither '/auth/register' nor '/auth/login'; register and login calls
\* never carry it, '/auth/me' and '/auth/admin/register' carry it whenever
\* a token is stored.
C12_TokenAttachedIffProtected ==
    lastConfig # NoConfig =>
        LET url == lastConfig.config.url
            header == lastConfig.config.Authorization
            attached == header = "Bearer " \o lastConfig.stored
        IN  /\ attached <=> /\ lastConfig.stored # "null"
                            /\ ~includes(url, "/auth/register")
                            /\ ~includes(url, "/auth/login")
            /\ ~attached => header = "undefined"
            /\ url \in {"/auth/register", "/auth/login"} => header = "undefined"
            /\ (url \in {"/auth/me", "/auth/admin/register"}
                    /\ lastConfig.stored # "null") => attached

\* C12 witness: with a token stored, the admin-register call left the
\* interceptor with the Bearer header.
C12_Witness ==
    /\ lastConfig.stored = "jwt.sam"
    /\ lastConfig.config.url = "/auth/admin/register"
    /\ lastConfig.config.Authorization = "Bearer jwt.sam"

\* C12 second case reached: with a token stored, the login call left the
\* interceptor without the header.
C12_PublicReached ==
    /\ lastConfig.stored = "jwt.jane"
    /\ lastConfig.config.url = "/auth/login"
    /\ lastConfig.config.Authorization = "undefined"

\* C18: on a layout route whose lazy page module is still loading, the
\* Layout header is displayed and the page content waits behind the
\* 'Loading...' fallback.
C18_HeaderShownWhileLoading ==
    (lazyLocation \in LayoutUrls /\ Suspends(lazyLocation, lazyLoaded))
        => (lazyScreen.header /\ lazyScreen.fallback)

\* C19: a user with role ADMIN is persisted only by a request that an
\* existing ADMIN is authenticated for; register never creates one, and
\* admin/register creates one only when the token carries the ADMIN role.
C19_AdminCreatedOnlyByAdmin ==
    /\ lastReq.route = "POST /auth/register"
           => \A i \in DOMAIN users :
                  i > Len(lastReq.before)
                      => \A k \in DOMAIN users[i].roles : users[i].roles[k] # Role.ADMIN
    /\ (lastReq.route = "POST /auth/admin/register" /\ Len(users) > Len(lastReq.before))
           => \E k \in DOMAIN lastReq.token.roles : lastReq.token.roles[k] = Role.ADMIN

====
